---- MODULE Spec2Model ----
(***************************************************************************)
(* The Jules orchestrator plugin (src/src/index.ts): the task store, the   *)
(* gateway methods createTask, approveTask, cancelTask, createPrForTask,   *)
(* and the jules-poller service.                                           *)
(*                                                                         *)
(* Every gateway method and the poller are async functions: between two    *)
(* awaits the code runs without interruption, and at every await another   *)
(* handler or the poller may run.  One action of this module is one such   *)
(* uninterrupted stretch: the awaited operation (a file read, a file       *)
(* write, a remote call) together with the synchronous code that follows   *)
(* it up to the next await.                                                *)
(*                                                                         *)
(* Modelling decisions:                                                    *)
(*  - a task file is read and written as a whole (fs.promises.readFile /   *)
(*    writeFile are taken as atomic), so every read parses;                *)
(*  - Math.random() ids are taken to be fresh: the k-th task gets id k;    *)
(*  - the Jules service hands out a fresh session id per created session;  *)
(*  - the poller's ticks are serialized (one run at a time);               *)
(*  - new Date() never goes backwards; two successive reads may return     *)
(*    the same millisecond;                                                *)
(*  - the Jules service moves its sessions at any time; the program sees   *)
(*    the state a session has when getSessionStatus asks for it.           *)
(*                                                                         *)
(* Specifications:                                                         *)
(*  - Spec: two tasks, three gateway invocations, no fairness;             *)
(*  - SpecDeep: one task, four gateway invocations, no fairness;           *)
(*  - SpecLoop: two tasks, two gateway invocations, status requests that   *)
(*    may hang, weak fairness of the poller's steps.                       *)
(***************************************************************************)
EXTENDS Integers, Sequences, FiniteSets

\* ------------------------------------------------------------------ bounds

\* Tasks ever created (createTask invocations).
MaxTasks == 2
\* Gateway invocations that may be in flight at the same time.
MaxCalls == 2
\* Gateway invocations the callers make in all.
MaxInvocations == 3
\* Last millisecond of the clock.
MaxClock == 1
\* Pull requests the source-hosting service opens.
MaxPrs == 2

Ids == 1..MaxTasks
Sessions == 1..MaxTasks
Procs == 1..MaxCalls

\* ------------------------------------------------------------- TaskStatus

\* TaskStatus.NEW (NEW is a reserved word of TLA+).
NEW_STATUS == "NEW"
QUEUED == "QUEUED"
PLANNING == "PLANNING"
WAITING_FOR_PLAN_APPROVAL == "WAITING_FOR_PLAN_APPROVAL"
RUNNING == "RUNNING"
WAITING_FOR_DIFF_APPROVAL == "WAITING_FOR_DIFF_APPROVAL"
READY_FOR_PR == "READY_FOR_PR"
PR_CREATED == "PR_CREATED"
MERGED == "MERGED"
CANCELLED == "CANCELLED"
FAILED == "FAILED"

TaskStatus ==
    { NEW_STATUS, QUEUED, PLANNING, WAITING_FOR_PLAN_APPROVAL, RUNNING,
      WAITING_FOR_DIFF_APPROVAL, READY_FOR_PR, PR_CREATED, MERGED,
      CANCELLED, FAILED }

\* ------------------------------------------------------------------- Task

\* An optional field that is not set (julesSessionId?, githubPrUrl?, error?).
Unset == 0

\* getTask's null, and an empty local variable.
NoTask == [id |-> 0]

\* The task createTask builds (index.ts 226-234).  The k-th invocation
\* brings the k-th title, description and repo; no code changes them.
NewTask(id, created, updated) ==
    [ id |-> id, title |-> id, description |-> id, repo |-> id,
      status |-> NEW_STATUS, julesSessionId |-> Unset,
      githubPrUrl |-> Unset, createdAt |-> created, updatedAt |-> updated,
      error |-> Unset ]

\* { ...task, ...updates, updatedAt: new Date().toISOString() }
Merge(task, updates, t) ==
    [ f \in DOMAIN task |->
        IF f = "updatedAt" THEN t
        ELSE IF f \in DOMAIN updates THEN updates[f]
        ELSE task[f] ]

\* What a handler or the poller keeps of a task it read: the fields the code
\* reads from the local variable afterwards (task.id, task.status,
\* task.julesSessionId).
Local(task) ==
    IF task = NoTask THEN NoTask
    ELSE [id |-> task.id, status |-> task.status, julesSessionId |-> task.julesSessionId]

\* The error message recorded when session creation fails (e.message).
SessionError == 1

\* ----------------------------------------------------------- Jules states

\* A session id the service has not handed out yet.
NotCreated == "NOT_CREATED"
\* A state the poller has no rule for.
IN_PROGRESS == "IN_PROGRESS"
\* The status request fails (getSessionStatus throws).
UNAVAILABLE == "UNAVAILABLE"

JulesStates ==
    { IN_PROGRESS, "WAITING_FOR_USER_PLAN_APPROVAL",
      "WAITING_FOR_USER_DIFF_APPROVAL", "DONE", "FAILED", "ERROR",
      UNAVAILABLE }

\* A mapping that knows the state FAILED and not the state ERROR.
MapStatus_NoError(state, status) ==
    IF state = "WAITING_FOR_USER_PLAN_APPROVAL" THEN WAITING_FOR_PLAN_APPROVAL
    ELSE IF state = "WAITING_FOR_USER_DIFF_APPROVAL" THEN WAITING_FOR_DIFF_APPROVAL
    ELSE IF state = "DONE" THEN READY_FOR_PR
    ELSE IF state = "FAILED" THEN FAILED
    ELSE status

\* The poller's mapping of a session state to a task status: newStatus
\* starts as task.status and is replaced when a rule matches.
MapStatus(state, status) ==
    IF state = "WAITING_FOR_USER_PLAN_APPROVAL" THEN WAITING_FOR_PLAN_APPROVAL
    ELSE IF state = "WAITING_FOR_USER_DIFF_APPROVAL" THEN WAITING_FOR_DIFF_APPROVAL
    ELSE IF state = "DONE" THEN READY_FOR_PR
    ELSE IF state = "FAILED" \/ state = "ERROR" THEN FAILED
    ELSE status

\* ------------------------------------------------------------------ state

VARIABLES
    store,    \* the data directory: id -> the task its file holds, or NoTask
    remote,   \* the Jules service: session id -> session state
    prs,      \* pull requests the source-hosting service has opened
    now,      \* the last value new Date() returned
    calls,    \* the gateway invocations in flight, by slot
    poll,     \* the jules-poller run
    invoked,  \* gateway invocations made so far
    calm,     \* history: poller ticks begun since anything else last acted
    hadPr,    \* history: ids whose file has held status PR_CREATED
    cancelAsked, \* history: session ids cancelSession has been called with
    load      \* what the callers bring: tasks to create, invocations to make

vars == <<store, remote, prs, now, calls, poll, invoked, calm, hadPr,
          cancelAsked, load>>

\* A gateway slot with no invocation in it.
IdleCall ==
    [ op |-> "idle", pc |-> "idle", id |-> 0, task |-> NoTask,
      sessionId |-> Unset, updates |-> <<>>, next |-> NoTask, ret |-> NoTask,
      err |-> FALSE, writes |-> 0, outcome |-> "none" ]

\* The poller between two ticks.
IdlePoll ==
    [ pc |-> "idle", files |-> <<>>, tasks |-> <<>>, i |-> 0,
      updates |-> <<>>, next |-> NoTask ]

\* The plugin has started: an empty data directory, no session, the poller
\* between two ticks, and callers that bring the load l.
Start(l) ==
    /\ store = [id \in Ids |-> NoTask]
    /\ remote = [s \in Sessions |-> NotCreated]
    /\ prs = 0
    /\ now = 0
    /\ calls = [p \in Procs |-> IdleCall]
    /\ poll = IdlePoll
    /\ invoked = 0
    /\ calm = 0
    /\ hadPr = {}
    /\ cancelAsked = {}
    /\ load = l

Init == Start([tasks |-> MaxTasks, invocations |-> MaxInvocations])

\* --------------------------------------------------------------- helpers

\* What a new Date() can return after one that returned t.
Later(t) == IF t < MaxClock THEN {t, t + 1} ELSE {t}

\* The ids that have a file, in the order readdir lists them.
Files == { id \in Ids : store[id] # NoTask }

\* The ids of S from `from` on, in order, as the list readdir returns.
RECURSIVE SeqOf(_, _)
SeqOf(S, from) ==
    IF from > MaxTasks THEN <<>>
    ELSE IF from \in S THEN <<from>> \o SeqOf(S, from + 1)
    ELSE SeqOf(S, from + 1)

\* The slot a new invocation takes: the first idle one, while the callers
\* have invocations left to make.  Every step of the gateway ends a quiet
\* stretch of the poller (calm).
FreeSlot(p) ==
    /\ invoked < load.invocations
    /\ calls[p].pc = "idle"
    /\ \A q \in Procs : q < p => calls[q].pc # "idle"

\* A handler throws: the invocation ends with the error.
Throw(c) == [c EXCEPT !.pc = "done", !.err = TRUE]

\* saveTask: the file of task.id is overwritten with the task.
SaveTask(task) ==
    /\ store' = [store EXCEPT ![task.id] = task]
    /\ hadPr' = IF task.status = PR_CREATED THEN hadPr \cup {task.id} ELSE hadPr

\* --------------------------------------------------------- TaskManager

\* updateTask up to its await of saveTask: getTask reads the file, the
\* updates are merged over what was read, updatedAt is stamped.  No file is
\* ever removed, so the task is found.
UpdateTask_Get(p) ==
    /\ calls[p].pc = "updateTask"
    /\ store[calls[p].id] # NoTask
    /\ \E t \in Later(now) :
        /\ now' = t
        /\ calls' = [calls EXCEPT ![p].pc = "saveTask",
                                  ![p].updates = <<>>,
                                  ![p].next = Merge(store[calls[p].id], calls[p].updates, t)]
    /\ calm' = 0
    /\ UNCHANGED <<store, remote, prs, poll, hadPr, invoked, cancelAsked, load>>

\* What follows updateTask in the handler: createTask returns the updated
\* task; the other handlers go on to read the task again.
AfterUpdate(c) ==
    IF c.op = "createTask"
    THEN [c EXCEPT !.pc = "done", !.ret = c.next, !.next = NoTask,
                   !.writes = c.writes + 1]
    ELSE [c EXCEPT !.pc = "getTask", !.next = NoTask,
                   !.writes = c.writes + 1]

\* updateTask's saveTask: the merged task is written.
UpdateTask_Save(p) ==
    /\ calls[p].pc = "saveTask"
    /\ SaveTask(calls[p].next)
    /\ calls' = [calls EXCEPT ![p] = AfterUpdate(calls[p])]
    /\ calm' = 0
    /\ UNCHANGED <<remote, prs, now, poll, invoked, cancelAsked, load>>

\* The handler's last statement, return await taskManager.getTask(id).
Return_GetTask(p) ==
    /\ calls[p].pc = "getTask"
    /\ calls' = [calls EXCEPT ![p].pc = "done", ![p].ret = store[calls[p].id]]
    /\ calm' = 0
    /\ UNCHANGED <<store, remote, prs, now, poll, hadPr, invoked,
                 cancelAsked, load>>

\* The gateway hands the result (or the error) to the caller.
Respond(p) ==
    /\ calls[p].pc = "done"
    /\ calls' = [calls EXCEPT ![p] = IdleCall]
    /\ calm' = 0
    /\ UNCHANGED <<store, remote, prs, now, poll, hadPr, invoked,
                 cancelAsked, load>>

\* ------------------------------------------------------------ createTask

\* createTask up to its await of createSession: a fresh id, the NEW task
\* with its two timestamps, saveTask.
CreateTask_Save(p) ==
    /\ FreeSlot(p)
    /\ Cardinality(Files) < load.tasks
    /\ LET id == Cardinality(Files) + 1 IN
       \E t1 \in Later(now) : \E t2 \in Later(t1) :
        /\ now' = t2
        /\ SaveTask(NewTask(id, t1, t2))
        /\ calls' = [calls EXCEPT ![p] =
                [IdleCall EXCEPT !.op = "createTask", !.pc = "createSession",
                                 !.id = id, !.task = Local(NewTask(id, t1, t2)),
                                 !.writes = 1]]
    /\ invoked' = invoked + 1
    /\ calm' = 0
    /\ UNCHANGED <<remote, prs, poll, cancelAsked, load>>

\* The session the Jules service creates next.
NextSession == Cardinality({ s \in Sessions : remote[s] # NotCreated }) + 1

\* The update of the try block, after createSession returned sessionId.
CreatedUpdates(sessionId) == [julesSessionId |-> sessionId, status |-> PLANNING]

\* A catch block that records the error and leaves the status.
FailedUpdates_NoStatus == [error |-> SessionError]

\* The update of the catch block.
FailedUpdates == [status |-> FAILED, error |-> SessionError]

\* createSession resolves with a session id (the try block's update
\* follows), or rejects (the catch block's update follows).
CreateTask_Session(p) ==
    /\ calls[p].pc = "createSession"
    /\ \/ /\ NextSession \in Sessions
          /\ remote' = [remote EXCEPT ![NextSession] = IN_PROGRESS]
          /\ calls' = [calls EXCEPT ![p].pc = "updateTask", ![p].outcome = "resolved",
                                    ![p].sessionId = NextSession,
                                    ![p].updates = CreatedUpdates(NextSession)]
       \/ /\ remote' = remote
          /\ calls' = [calls EXCEPT ![p].pc = "updateTask", ![p].outcome = "rejected",
                                    ![p].updates = FailedUpdates]
    /\ calm' = 0
    /\ UNCHANGED <<store, prs, now, poll, hadPr, invoked, cancelAsked, load>>

\* ----------------------------------------------------------- approveTask

\* An approveTask without the final else: any other status falls through to
\* the return.
ApproveTask_Check_NoElse(c) ==
    IF c.task = NoTask THEN Throw(c)
    ELSE IF c.task.julesSessionId = Unset THEN Throw(c)
    ELSE IF c.task.status = WAITING_FOR_PLAN_APPROVAL THEN [c EXCEPT !.pc = "approvePlan"]
    ELSE IF c.task.status = WAITING_FOR_DIFF_APPROVAL THEN [c EXCEPT !.pc = "approveDiff"]
    ELSE [c EXCEPT !.pc = "getTask"]

\* What approveTask does with the task it read: without a task or a
\* session id it throws; it calls approvePlan or approveDiff by the status;
\* in any other status it throws.
ApproveTask_Check(c) ==
    IF c.task = NoTask THEN Throw(c)
    ELSE IF c.task.julesSessionId = Unset THEN Throw(c)
    ELSE IF c.task.status = WAITING_FOR_PLAN_APPROVAL THEN [c EXCEPT !.pc = "approvePlan"]
    ELSE IF c.task.status = WAITING_FOR_DIFF_APPROVAL THEN [c EXCEPT !.pc = "approveDiff"]
    ELSE Throw(c)

\* approveTask up to its first await after getTask.
ApproveTask_Get(p) ==
    /\ FreeSlot(p)
    /\ \E id \in Ids :
        calls' = [calls EXCEPT ![p] = ApproveTask_Check(
            [IdleCall EXCEPT !.op = "approveTask", !.id = id, !.task = Local(store[id])])]
    /\ invoked' = invoked + 1
    /\ calm' = 0
    /\ UNCHANGED <<store, remote, prs, now, poll, hadPr, cancelAsked, load>>

\* The two branches with their statuses exchanged.
ApprovedStatus_Swapped(c) == IF c.pc = "approvePlan" THEN READY_FOR_PR ELSE RUNNING

\* The status approveTask writes after the remote call it made.
ApprovedStatus(c) == IF c.pc = "approvePlan" THEN RUNNING ELSE READY_FOR_PR

\* The remote approve call resolved: updateTask follows.
ApproveResolved(c) ==
    [c EXCEPT !.pc = "updateTask", !.outcome = "resolved",
              !.updates = [status |-> ApprovedStatus(c)]]

\* An approveTask that catches the error of the remote call and goes on, as
\* cancelTask does.
ApproveRejected_Swallowed(c) ==
    [c EXCEPT !.pc = "updateTask", !.outcome = "rejected",
              !.updates = [status |-> ApprovedStatus(c)]]

\* The remote approve call rejected: nothing catches the error.
ApproveRejected(c) == Throw([c EXCEPT !.outcome = "rejected"])

\* approvePlan / approveDiff resolves or rejects.
ApproveTask_Remote(p) ==
    /\ calls[p].pc \in {"approvePlan", "approveDiff"}
    /\ \/ calls' = [calls EXCEPT ![p] = ApproveResolved(calls[p])]
       \/ calls' = [calls EXCEPT ![p] = ApproveRejected(calls[p])]
    /\ calm' = 0
    /\ UNCHANGED <<store, remote, prs, now, poll, hadPr, invoked,
                 cancelAsked, load>>

\* ------------------------------------------------------------ cancelTask

\* The update cancelTask makes.
CancelUpdates == [status |-> CANCELLED]

\* cancelTask up to its first await after getTask: without a task it
\* throws; with a session id it calls cancelSession; without one it goes
\* straight to updateTask.
CancelTask_Get(p) ==
    /\ FreeSlot(p)
    /\ \E id \in Ids :
        LET task == Local(store[id])
            c == [IdleCall EXCEPT !.op = "cancelTask", !.id = id, !.task = task]
        IN calls' = [calls EXCEPT ![p] =
            IF task = NoTask THEN Throw(c)
            ELSE IF task.julesSessionId # Unset THEN [c EXCEPT !.pc = "cancelSession"]
            ELSE [c EXCEPT !.pc = "updateTask", !.updates = CancelUpdates]]
    /\ invoked' = invoked + 1
    /\ calm' = 0
    /\ UNCHANGED <<store, remote, prs, now, poll, hadPr, cancelAsked, load>>

\* cancelSession resolves, or rejects and the error is only logged:
\* updateTask follows either way.
CancelTask_Remote(p) ==
    /\ calls[p].pc = "cancelSession"
    /\ \E outcome \in {"resolved", "rejected"} :
        calls' = [calls EXCEPT ![p].pc = "updateTask", ![p].outcome = outcome,
                               ![p].updates = CancelUpdates]
    /\ cancelAsked' = cancelAsked \cup {calls[p].task.julesSessionId}
    /\ calm' = 0
    /\ UNCHANGED <<store, remote, prs, now, poll, hadPr, invoked, load>>

\* ------------------------------------------------------- createPrForTask

\* A createPrForTask without the status check.
CreatePr_Check_AnyStatus(c) ==
    IF c.task = NoTask THEN Throw(c)
    ELSE [c EXCEPT !.pc = "createPr"]

\* What createPrForTask does with the task it read: without a task, or
\* with a task that is not READY_FOR_PR, it throws; else it calls createPr.
CreatePr_Check(c) ==
    IF c.task = NoTask THEN Throw(c)
    ELSE IF c.task.status # READY_FOR_PR THEN Throw(c)
    ELSE [c EXCEPT !.pc = "createPr"]

\* createPrForTask up to its await of createPr.
CreatePr_Get(p) ==
    /\ FreeSlot(p)
    /\ \E id \in Ids :
        calls' = [calls EXCEPT ![p] = CreatePr_Check(
            [IdleCall EXCEPT !.op = "createPrForTask", !.id = id, !.task = Local(store[id])])]
    /\ invoked' = invoked + 1
    /\ calm' = 0
    /\ UNCHANGED <<store, remote, prs, now, poll, hadPr, cancelAsked, load>>

\* createPr resolves with the URL of the pull request it opened
\* (updateTask follows), or rejects (the error leaves the handler).
CreatePr_Remote(p) ==
    /\ calls[p].pc = "createPr"
    /\ \/ /\ prs < MaxPrs
          /\ prs' = prs + 1
          /\ calls' = [calls EXCEPT ![p].pc = "updateTask", ![p].outcome = "resolved",
                    ![p].updates = [status |-> PR_CREATED, githubPrUrl |-> prs + 1]]
       \/ /\ prs' = prs
          /\ calls' = [calls EXCEPT ![p] = Throw([calls[p] EXCEPT !.outcome = "rejected"])]
    /\ calm' = 0
    /\ UNCHANGED <<store, remote, now, poll, hadPr, invoked, cancelAsked, load>>

\* ----------------------------------------------------------- jules-poller

\* The statuses the poller looks at.
Polled(task) ==
    /\ task.status = RUNNING \/ task.status = PLANNING \/ task.status = QUEUED
    /\ task.julesSessionId # Unset

\* The for loop from position i on: the next task the poller fetches the
\* session of, or past the end when there is none.
RECURSIVE NextPolled(_, _)
NextPolled(tasks, i) ==
    IF i > Len(tasks) THEN i
    ELSE IF Polled(tasks[i]) THEN i
    ELSE NextPolled(tasks, i + 1)

\* The poller goes on with the loop at position i, and the run ends when
\* the loop does.
Continue(q, i) ==
    LET j == NextPolled(q.tasks, i) IN
    IF j > Len(q.tasks) THEN IdlePoll
    ELSE [q EXCEPT !.pc = "getSessionStatus", !.i = j, !.updates = <<>>, !.next = NoTask]

\* A run starts: listTasks reads the directory.
Poll_Readdir ==
    /\ poll.pc = "idle"
    /\ poll' = IF Files = {} THEN IdlePoll
               ELSE [IdlePoll EXCEPT !.pc = "readFile", !.files = SeqOf(Files, 1)]
    /\ calm' = IF calm = 0 THEN 1 ELSE 2
    /\ UNCHANGED <<store, remote, prs, now, calls, invoked, hadPr,
                 cancelAsked, load>>

\* listTasks reads the next file; after the last one the loop starts.
Poll_ReadFile ==
    /\ poll.pc = "readFile"
    /\ LET tasks == Append(poll.tasks, Local(store[poll.files[Len(poll.tasks) + 1]])) IN
        poll' = IF Len(tasks) < Len(poll.files)
                THEN [poll EXCEPT !.tasks = tasks]
                ELSE Continue([poll EXCEPT !.tasks = tasks], 1)
    /\ UNCHANGED <<store, remote, prs, now, calls, invoked, calm, hadPr,
                 cancelAsked, load>>

\* A poller without the newStatus !== task.status test.
Reconcile_Always(q, state) ==
    [q EXCEPT !.pc = "updateTask",
              !.updates = [status |-> MapStatus(state, q.tasks[q.i].status)]]

\* What the poller does with the session state it fetched for a task:
\* update the task when the mapped status differs, else go on.
Reconcile(q, state) ==
    LET task == q.tasks[q.i]
        newStatus == MapStatus(state, task.status)
    IN IF newStatus # task.status
       THEN [q EXCEPT !.pc = "updateTask", !.updates = [status |-> newStatus]]
       ELSE Continue(q, q.i + 1)

\* A catch around the whole loop: the first failed request ends the run.
FetchFailed_EndsRun(q) == IdlePoll

\* The catch block inside the loop: the error is logged and the loop goes
\* on with the next task.
FetchFailed(q) == Continue(q, q.i + 1)

\* getSessionStatus resolves with the session's state, or rejects and the
\* error is logged.  The service moves its sessions on its own; what the
\* program sees of that is the state at the moment of the request, and
\* remote keeps the state last seen.
Poll_Fetch ==
    /\ poll.pc = "getSessionStatus"
    /\ LET s == poll.tasks[poll.i].julesSessionId IN
       \E state \in JulesStates :
        /\ remote' = [remote EXCEPT ![s] = state]
        /\ calm' = IF state = remote[s] THEN calm ELSE 0
        /\ poll' = IF state = UNAVAILABLE THEN FetchFailed(poll)
                   ELSE Reconcile(poll, state)
    /\ UNCHANGED <<store, prs, now, calls, invoked, hadPr, cancelAsked, load>>

\* The poller's updateTask, up to its await of saveTask.
Poll_UpdateTask_Get ==
    /\ poll.pc = "updateTask"
    /\ \E t \in Later(now) :
        /\ now' = t
        /\ poll' = [poll EXCEPT !.pc = "saveTask",
                        !.updates = <<>>,
                        !.next = Merge(store[poll.tasks[poll.i].id], poll.updates, t)]
    /\ UNCHANGED <<store, remote, prs, calls, invoked, calm, hadPr,
                 cancelAsked, load>>

\* The poller's updateTask writes the merged task; the loop goes on.
Poll_UpdateTask_Save ==
    /\ poll.pc = "saveTask"
    /\ SaveTask(poll.next)
    /\ poll' = Continue(poll, poll.i + 1)
    /\ UNCHANGED <<remote, prs, now, calls, invoked, calm, cancelAsked, load>>

\* ---------------------------------------------------------- specification

Next ==
    \/ \E p \in Procs : CreateTask_Save(p)
    \/ \E p \in Procs : CreateTask_Session(p)
    \/ \E p \in Procs : ApproveTask_Get(p)
    \/ \E p \in Procs : ApproveTask_Remote(p)
    \/ \E p \in Procs : CancelTask_Get(p)
    \/ \E p \in Procs : CancelTask_Remote(p)
    \/ \E p \in Procs : CreatePr_Get(p)
    \/ \E p \in Procs : CreatePr_Remote(p)
    \/ \E p \in Procs : UpdateTask_Get(p)
    \/ \E p \in Procs : UpdateTask_Save(p)
    \/ \E p \in Procs : Return_GetTask(p)
    \/ \E p \in Procs : Respond(p)
    \/ Poll_Readdir
    \/ Poll_ReadFile
    \/ Poll_Fetch
    \/ Poll_UpdateTask_Get
    \/ Poll_UpdateTask_Save

Spec == Init /\ [][Next]_vars

\* One task and one invocation more: the callers work on a single task.
InitDeep == Start([tasks |-> 1, invocations |-> MaxInvocations + 1])

SpecDeep == InitDeep /\ [][Next]_vars

\* A getSessionStatus request that is never answered (no call of the
\* program has a timeout): the await never resumes, the run stays in the
\* loop at this task.
Poll_Hang ==
    /\ poll.pc = "getSessionStatus"
    /\ poll' = [poll EXCEPT !.pc = "hung"]
    /\ UNCHANGED <<store, remote, prs, now, calls, invoked, calm, hadPr,
                   cancelAsked, load>>

\* The poller's steps.
PollStep ==
    \/ Poll_Readdir
    \/ Poll_ReadFile
    \/ Poll_Fetch
    \/ Poll_UpdateTask_Get
    \/ Poll_UpdateTask_Save

\* The event loop resumes the poller when what it awaits has completed,
\* and the service timer starts a tick when none is running.
PollerFairness ==
    /\ WF_vars(Poll_Readdir)
    /\ WF_vars(Poll_ReadFile)
    /\ WF_vars(Poll_Fetch)
    /\ WF_vars(Poll_UpdateTask_Get)
    /\ WF_vars(Poll_UpdateTask_Save)

\* The callers make as many invocations as there are tasks to create.
InitLoop == Start([tasks |-> MaxTasks, invocations |-> MaxTasks])

NextLoop == Next \/ Poll_Hang

\* The reconciliation loop under a fair event loop, with status requests
\* that may hang.
SpecLoop == InitLoop /\ [][NextLoop]_vars /\ PollerFairness

\* ----------------------------------------------------------------- claims

\* The tasks that have a file.
Tasks == { id \in Ids : store[id] # NoTask }

\* The terminal states of the lifecycle.
Terminal == {MERGED, CANCELLED, FAILED}

\* The states the reconciliation loop polls.
InFlight == {QUEUED, PLANNING, RUNNING}

\* The edges of the lifecycle's transition table.
Edge(from, to) ==
    \/ from = NEW_STATUS /\ to \in {PLANNING, FAILED}
    \/ from \in InFlight /\ to \in { WAITING_FOR_PLAN_APPROVAL, WAITING_FOR_DIFF_APPROVAL,
                                     READY_FOR_PR, FAILED }
    \/ from = WAITING_FOR_PLAN_APPROVAL /\ to = RUNNING
    \/ from = WAITING_FOR_DIFF_APPROVAL /\ to = READY_FOR_PR
    \/ from = READY_FOR_PR /\ to = PR_CREATED
    \/ from \notin Terminal /\ to = CANCELLED

\* C1: every change of a task's persisted status, by any handler or tick in
\* any interleaving, goes along an edge of the transition table.
C1_OnlyTableEdges ==
    [][\A id \in Ids :
        (store[id] # NoTask /\ store'[id].status # store[id].status)
            => Edge(store[id].status, store'[id].status)]_vars

\* C2: when createTask returns, it returns a task (no error leaves it) whose
\* status is PLANNING, with the session id createSession returned, or FAILED,
\* with the error recorded, after createSession rejected; never NEW.
C2_CreateTaskReturns ==
    \A p \in Procs :
        (calls[p].op = "createTask" /\ calls[p].pc = "done") =>
            /\ ~calls[p].err
            /\ calls[p].ret.status \in {PLANNING, FAILED}
            /\ calls[p].outcome = "resolved" =>
                /\ calls[p].ret.status = PLANNING
                /\ calls[p].ret.julesSessionId = calls[p].sessionId
                /\ calls[p].sessionId # Unset
            /\ calls[p].outcome = "rejected" =>
                /\ calls[p].ret.status = FAILED
                /\ calls[p].ret.error # Unset

\* createTask has returned a FAILED task after createSession rejected.
C2_Witness ==
    \E p \in Procs :
        /\ calls[p].op = "createTask" /\ calls[p].pc = "done"
        /\ calls[p].outcome = "rejected" /\ calls[p].ret.status = FAILED

\* C3: when cancelTask returns for an existing task, whether cancelSession
\* resolved or rejected, the task it returns and the persisted task both
\* have status CANCELLED.
C3_CancelAlwaysCancelled ==
    \A p \in Procs :
        (calls[p].op = "cancelTask" /\ calls[p].pc = "done" /\ ~calls[p].err) =>
            /\ calls[p].ret.status = CANCELLED
            /\ store[calls[p].id].status = CANCELLED

\* C4: once a task's persisted status is terminal, no step of any handler
\* or tick changes it.
C4_TerminalIsFinal ==
    [][\A id \in Ids :
        (store[id] # NoTask /\ store[id].status \in Terminal)
            => store'[id].status = store[id].status]_vars

\* C5: an approveTask that read a task in a status waiting for no approval
\* has thrown, has made no remote call and has written nothing.
C5_ApproveRejectsOtherStates ==
    \A p \in Procs :
        ( /\ calls[p].op = "approveTask"
          /\ calls[p].task # NoTask
          /\ calls[p].task.status \notin {WAITING_FOR_PLAN_APPROVAL, WAITING_FOR_DIFF_APPROVAL} )
        => /\ calls[p].pc = "done"
           /\ calls[p].err
           /\ calls[p].outcome = "none"
           /\ calls[p].writes = 0

\* approveTask has thrown on a task with a session that it read as RUNNING.
C5_Witness ==
    \E p \in Procs :
        /\ calls[p].op = "approveTask" /\ calls[p].pc = "done" /\ calls[p].err
        /\ calls[p].task # NoTask
        /\ calls[p].task.status = RUNNING
        /\ calls[p].task.julesSessionId # Unset

\* C6: a createPrForTask that read a task in a status other than
\* READY_FOR_PR has thrown, has made no createPr call and has written
\* nothing (so it has set no pull request URL).
C6_CreatePrRejectsOtherStates ==
    \A p \in Procs :
        ( /\ calls[p].op = "createPrForTask"
          /\ calls[p].task # NoTask
          /\ calls[p].task.status # READY_FOR_PR )
        => /\ calls[p].pc = "done"
           /\ calls[p].err
           /\ calls[p].outcome = "none"
           /\ calls[p].writes = 0

\* createPrForTask has thrown on a task it read as PLANNING, and the task
\* has no pull request URL.
C6_Witness ==
    \E p \in Procs :
        /\ calls[p].op = "createPrForTask" /\ calls[p].pc = "done" /\ calls[p].err
        /\ calls[p].task # NoTask
        /\ calls[p].task.status = PLANNING
        /\ store[calls[p].id].githubPrUrl = Unset

\* C7: in a tick that follows a whole tick, with no gateway step and no
\* change of a fetched session state since that tick began, the poller
\* makes no update; and whenever the poller updates a task, the status it
\* writes differs from the status it read for the task.
C7_ReconcileIdempotent ==
    /\ calm = 2 => poll.pc \notin {"updateTask", "saveTask"}
    /\ poll.pc = "updateTask" => poll.updates.status # poll.tasks[poll.i].status
    /\ poll.pc = "saveTask" => poll.next.status # poll.tasks[poll.i].status

\* The second of two such ticks has fetched the session of its first task
\* and gone on, without a write, to fetch the session of its second.
C7_Witness ==
    /\ calm = 2
    /\ poll.pc = "getSessionStatus"
    /\ poll.i = 2
    /\ Polled(poll.tasks[1])

\* C8: every persisted task carries a session id, unless its status is NEW
\* or it is FAILED with the error of the failed session creation.
C8_SessionIdPresent ==
    \A id \in Tasks :
        \/ store[id].julesSessionId # Unset
        \/ store[id].status = NEW_STATUS
        \/ store[id].status = FAILED /\ store[id].error # Unset

\* C9: a persisted task has a pull request URL exactly if its status is,
\* or has been, PR_CREATED.
C9_PrUrlIffPrCreated ==
    \A id \in Tasks :
        /\ store[id].githubPrUrl # Unset <=> id \in hadPr
        /\ store[id].status = PR_CREATED => store[id].githubPrUrl # Unset

\* C10: an approveTask or createPrForTask whose remote call rejected has
\* thrown and has written nothing.
C10_RemoteFailureLeavesTask ==
    \A p \in Procs :
        ( /\ calls[p].op \in {"approveTask", "createPrForTask"}
          /\ calls[p].outcome = "rejected" )
        => /\ calls[p].pc = "done"
           /\ calls[p].err
           /\ calls[p].writes = 0

\* approveTask has thrown after approvePlan rejected, and the task is still
\* WAITING_FOR_PLAN_APPROVAL.
C10_Witness ==
    \E p \in Procs :
        /\ calls[p].op = "approveTask" /\ calls[p].pc = "done" /\ calls[p].err
        /\ calls[p].outcome = "rejected"
        /\ store[calls[p].id].status = WAITING_FOR_PLAN_APPROVAL

\* C11: a getSessionStatus request that hangs for one task stalls only that
\* task: while the run is hung at one task, the loop can still take a step
\* for every other in-flight task that has a session id.
C11_HangStallsOnlyThatTask ==
    \A id \in Tasks :
        ( /\ poll.pc = "hung"
          /\ poll.tasks[poll.i].id # id
          /\ Polled(store[id]) )
        => ENABLED PollStep

\* The statuses the poller's mapping produces.
Mapped == {WAITING_FOR_PLAN_APPROVAL, WAITING_FOR_DIFF_APPROVAL, READY_FOR_PR, FAILED}

\* The task the poller's loop is at.
Current == poll.tasks[poll.i]

\* The poller's loop is at task id, at position pc.
PollerAt(id, pc) == poll.pc = pc /\ Current.id = id

\* The store holds task id in flight with a session id.
Eligible(id) == id \in Tasks /\ Polled(store[id])

\* The last request for the session of task id failed.
LastFetchFailed(id) ==
    /\ id \in Tasks
    /\ store[id].julesSessionId # Unset
    /\ remote[store[id].julesSessionId] = UNAVAILABLE

\* C12: a failed getSessionStatus leaves the store as it is and the tick
\* goes on to the remaining tasks; the task whose request failed is fetched
\* again while it stays in flight and ticks keep running; and a request that
\* succeeds with a mapped state is followed by the task taking the mapped
\* status.
C12_FetchFailureRetried ==
    /\ [][ ( /\ poll.pc = "getSessionStatus"
             /\ poll'.pc # "hung"
             /\ poll' # poll
             /\ remote'[Current.julesSessionId] = UNAVAILABLE )
           => /\ store' = store
              /\ LET j == NextPolled(poll.tasks, poll.i + 1) IN
                 IF j > Len(poll.tasks) THEN poll'.pc = "idle"
                 ELSE poll'.pc = "getSessionStatus" /\ poll'.i = j ]_vars
    /\ \A id \in Ids :
        (LastFetchFailed(id) /\ Eligible(id))
        ~> \/ PollerAt(id, "getSessionStatus")
           \/ ~ Eligible(id)
           \/ poll.pc = "hung"
    /\ \A id \in Ids : \A status \in Mapped :
        (PollerAt(id, "updateTask") /\ poll.updates.status = status)
        ~> (id \in Tasks /\ store[id].status = status)

\* The request for a task's session failed on an earlier tick, the task is
\* still in flight, and this tick is fetching its session again.
C12_Witness ==
    /\ poll.pc = "getSessionStatus"
    /\ LastFetchFailed(Current.id)
    /\ Eligible(Current.id)

\* C13: the createPrForTask invocations on one task open at most one pull
\* request between them, and a pull request URL once written to a task is
\* never replaced by a different URL.
C13_PrUrlSetOnce ==
    /\ [](\A p, q \in Procs :
            ( /\ p # q
              /\ calls[p].op = "createPrForTask" /\ calls[q].op = "createPrForTask"
              /\ calls[p].id = calls[q].id )
            => ~ (calls[p].outcome = "resolved" /\ calls[q].outcome = "resolved"))
    /\ [][ \A id \in Tasks :
            (store[id].githubPrUrl # Unset /\ store'[id].githubPrUrl # Unset)
            => store'[id].githubPrUrl = store[id].githubPrUrl ]_vars

\* C14: once the file of a task carries a session id, every later content
\* of the file carries the same session id.
C14_SessionIdImmutable ==
    [][ \A id \in Tasks :
            store[id].julesSessionId # Unset
            => store'[id].julesSessionId = store[id].julesSessionId ]_vars

\* C15: updatedAt of a task is never earlier than its createdAt, and every
\* write that changes the file of a task gives it a greater updatedAt than
\* the content it replaces.
C15_UpdatedAtIncreases ==
    /\ [](\A id \in Tasks : store[id].createdAt <= store[id].updatedAt)
    /\ [][ \A id \in Tasks :
            store'[id] # store[id] => store'[id].updatedAt > store[id].updatedAt ]_vars

\* The status the mapping table gives for a fetched session state, or
\* "none" for a state the table does not list.
TableStatus(state) ==
    CASE state = "WAITING_FOR_USER_PLAN_APPROVAL" -> WAITING_FOR_PLAN_APPROVAL
      [] state = "WAITING_FOR_USER_DIFF_APPROVAL" -> WAITING_FOR_DIFF_APPROVAL
      [] state = "DONE" -> READY_FOR_PR
      [] state \in {"FAILED", "ERROR"} -> FAILED
      [] OTHER -> "none"

\* C16: a tick fetches only tasks it read as QUEUED, PLANNING or RUNNING
\* with a session id; a fetched state the table lists is followed by an
\* update to exactly the listed status, any other fetched state by no
\* write; and a write of the poller changes only the file of the task it
\* fetched, to the listed status.
C16_TickMapsRemoteState ==
    /\ [](poll.pc \in {"getSessionStatus", "updateTask", "saveTask"}
            => /\ Current.status \in InFlight
               /\ Current.julesSessionId # Unset)
    /\ [][ ( /\ poll.pc = "getSessionStatus"
             /\ poll'.pc # "hung"
             /\ poll' # poll )
           => LET to == TableStatus(remote'[Current.julesSessionId]) IN
              /\ store' = store
              /\ IF to # "none"
                 THEN /\ poll'.pc = "updateTask"
                      /\ poll'.i = poll.i
                      /\ poll'.updates = [status |-> to]
                 ELSE poll'.pc \in {"idle", "getSessionStatus"} ]_vars
    /\ [][ (calls' = calls /\ store' # store)
           => /\ poll.pc = "saveTask"
              /\ \A id \in Ids : id # Current.id => store'[id] = store[id]
              /\ store'[Current.id].status
                    = TableStatus(remote[Current.julesSessionId]) ]_vars

\* The poller fetched ERROR for the session of a task it read as in flight
\* and is about to write the task as FAILED.
C16_Witness ==
    /\ poll.pc = "saveTask"
    /\ remote[Current.julesSessionId] = "ERROR"
    /\ poll.next.status = FAILED

\* The status approveTask persists for the status it read.
ApprovalTarget(status) ==
    IF status = WAITING_FOR_PLAN_APPROVAL THEN RUNNING ELSE READY_FOR_PR

\* C17: an approveTask that read WAITING_FOR_PLAN_APPROVAL calls approvePlan
\* and then persists RUNNING, one that read WAITING_FOR_DIFF_APPROVAL calls
\* approveDiff and then persists READY_FOR_PR, and it reaches its updateTask
\* only after the remote call resolved: until then it has written nothing.
C17_ApproveWritesAfterRemote ==
    \A p \in Procs :
        LET c == calls[p] IN
        c.op = "approveTask" =>
            /\ c.pc = "approvePlan"
                => c.task.status = WAITING_FOR_PLAN_APPROVAL /\ c.writes = 0
            /\ c.pc = "approveDiff"
                => c.task.status = WAITING_FOR_DIFF_APPROVAL /\ c.writes = 0
            /\ (c.pc \in {"updateTask", "saveTask"} \/ c.writes > 0)
                => /\ c.outcome = "resolved"
                   /\ c.task # NoTask
                   /\ c.task.julesSessionId # Unset
                   /\ c.task.status \in {WAITING_FOR_PLAN_APPROVAL, WAITING_FOR_DIFF_APPROVAL}
            /\ c.outcome # "resolved" => c.writes = 0 /\ c.next = NoTask
            /\ c.pc = "updateTask"
                => c.updates = [status |-> ApprovalTarget(c.task.status)] /\ c.writes = 0
            /\ c.pc = "saveTask"
                => c.next.status = ApprovalTarget(c.task.status) /\ c.writes = 0
            /\ c.writes <= 1

\* approveTask read WAITING_FOR_DIFF_APPROVAL, approveDiff resolved, and
\* the one write it made left the task READY_FOR_PR.
C17_Witness ==
    \E p \in Procs :
        /\ calls[p].op = "approveTask" /\ calls[p].pc = "getTask"
        /\ calls[p].task.status = WAITING_FOR_DIFF_APPROVAL
        /\ calls[p].outcome = "resolved" /\ calls[p].writes = 1
        /\ store[calls[p].id].status = READY_FOR_PR

\* The fields a reconciliation write is to leave alone.
FrameFields ==
    {"id", "title", "description", "repo", "createdAt", "julesSessionId", "githubPrUrl"}

\* C18: a write of the poller leaves id, title, description, repo,
\* createdAt, julesSessionId and githubPrUrl of the file as they were in the
\* content it replaces.
C18_TickWritesStatusOnly ==
    [][ (calls' = calls /\ store' # store)
        => \A id \in Tasks : \A f \in FrameFields : store'[id][f] = store[id][f] ]_vars

\* C19: a task whose file holds CANCELLED together with a session id has had
\* cancelSession called with that session id.
C19_CancelledSessionAsked ==
    \A id \in Tasks :
        (store[id].status = CANCELLED /\ store[id].julesSessionId # Unset)
        => store[id].julesSessionId \in cancelAsked

\* The statuses the program assigns.
Assigned ==
    { NEW_STATUS, PLANNING, WAITING_FOR_PLAN_APPROVAL, RUNNING,
      WAITING_FOR_DIFF_APPROVAL, READY_FOR_PR, PR_CREATED, CANCELLED, FAILED }

\* C20: the file of a task never holds QUEUED or MERGED, only one of the
\* nine statuses the program assigns, and a task in PR_CREATED stays there
\* or becomes CANCELLED.
C20_AssignedStatuses ==
    /\ [](\A id \in Tasks : store[id].status \in Assigned)
    /\ [][ \A id \in Tasks :
            store[id].status = PR_CREATED
            => store'[id].status \in {PR_CREATED, CANCELLED} ]_vars

====
